---------------------------- MODULE Spec2Model ----------------------------
(***************************************************************************)
(* Model of src/run.py: a Streamlit script (run_app) over a SQLite table   *)
(* food_items, a Gemini text-generation call, and a parser that extracts   *)
(* ingredient names from the suggestion text.                              *)
(*                                                                         *)
(* Text is modelled as a sequence of characters, each character a one-     *)
(* character string.  TLA+ strings are ASCII, so the non-ASCII pieces of   *)
(* the source are written as named atoms:                                  *)
(*   LABEL       the substring  使用食材:  (no character of it is a        *)
(*               separator or white space and it cannot overlap itself, so *)
(*               `in` and split() treat it as one indivisible unit)        *)
(*   WIDE_COMMA  the character  、  (U+3001)                               *)
(*   WIDE_SPACE  the character  　  (U+3000)                               *)
(*   other "<...>" atoms: runs of Japanese letters holding no separator,   *)
(*               white space, wildcard or label character.                 *)
(***************************************************************************)
EXTENDS Integers, Sequences, FiniteSets, TLC

VARIABLES
    table_exists,      \* the file food_items.db holds the table food_items
    food_items,        \* the rows of the table (a set of records)
    last_id,           \* sqlite_sequence: the largest id AUTOINCREMENT gave out
    session_state,     \* st.session_state: db_initialized, current_suggested_menu
    api_key_setup,     \* outcome of the module-level Gemini setup (lines 68-82)
    screen,            \* what the last script run rendered
    pc,                \* "run": a script run is pending (session start, st.rerun)
    last_event,        \* the user event that triggered the last script run
    run_log,           \* store calls the last script run made
    reset_clean,       \* a reset was clicked and add_ingredient_to_db not called since
    call               \* the last direct call of a store operation, with its outcome

vars == <<table_exists, food_items, last_id, session_state, api_key_setup,
          screen, pc, last_event, run_log, reset_clean, call>>

db_vars == <<table_exists, food_items, last_id>>
app_vars == <<session_state, screen, pc, last_event, run_log, reset_clean>>

---------------------------------------------------------------------------
(* Bounds *)

\* ids AUTOINCREMENT may give out: add is disabled once last_id reaches it
MaxId == 2

---------------------------------------------------------------------------
(* Characters and Python str operations *)

LABEL == "<shiyou-shokuzai:>"
WIDE_COMMA == "<U+3001>"
WIDE_SPACE == "<U+3000>"

\* str.strip() with no argument strips the characters for which isspace() holds
Whitespace == {" ", "\t", "\n", "\r", WIDE_SPACE}

RECURSIVE LStrip(_)
LStrip(s) ==
    IF s # <<>> /\ Head(s) \in Whitespace THEN LStrip(Tail(s)) ELSE s

RECURSIVE RStrip(_)
RStrip(s) ==
    IF s # <<>> /\ s[Len(s)] \in Whitespace
    THEN RStrip(SubSeq(s, 1, Len(s) - 1)) ELSE s

\* str.strip()
Strip(s) == RStrip(LStrip(s))

\* str.replace(old, new) for one-character old and new
Replace(s, old, new) == [i \in 1..Len(s) |-> IF s[i] = old THEN new ELSE s[i]]

\* str.replace(old, "") for a one-character old
Remove(s, old) == SelectSeq(s, LAMBDA c : c # old)

\* sep in s, for a one-unit sep
Contains(s, sep) == \E i \in 1..Len(s) : s[i] = sep

\* index of the first occurrence of sep in s (sep occurs in s)
FirstIndex(s, sep) == CHOOSE i \in 1..Len(s) :
    s[i] = sep /\ \A j \in 1..(i - 1) : s[j] # sep

\* str.split(sep) for a one-unit sep: the list of pieces, empty pieces kept
RECURSIVE Split(_, _)
Split(s, sep) ==
    IF ~Contains(s, sep) THEN <<s>>
    ELSE LET i == FirstIndex(s, sep)
         IN <<SubSeq(s, 1, i - 1)>> \o Split(SubSeq(s, i + 1, Len(s)), sep)

\* needle in hay, for strings: a case-sensitive literal substring
IsSubstring(needle, hay) ==
    \E i \in 1..(Len(hay) - Len(needle) + 1) :
        SubSeq(hay, i, i + Len(needle) - 1) = needle

---------------------------------------------------------------------------
(* datetime.strptime(s, "%Y-%m-%d") *)

Digits == {"0", "1", "2", "3", "4", "5", "6", "7", "8", "9"}

DigitVal == [c \in Digits |->
    CASE c = "0" -> 0 [] c = "1" -> 1 [] c = "2" -> 2 [] c = "3" -> 3
      [] c = "4" -> 4 [] c = "5" -> 5 [] c = "6" -> 6 [] c = "7" -> 7
      [] c = "8" -> 8 [] c = "9" -> 9]

IsDigits(s) == s # <<>> /\ \A i \in 1..Len(s) : s[i] \in Digits

\* int(s) for a string of decimal digits
RECURSIVE Num(_)
Num(s) ==
    IF s = <<>> THEN 0
    ELSE 10 * Num(SubSeq(s, 1, Len(s) - 1)) + DigitVal[s[Len(s)]]

\* %Y: \d\d\d\d
MatchesY(s) == Len(s) = 4 /\ IsDigits(s)

\* %m: 1[0-2]|0[1-9]|[1-9]
MatchesM(s) == IsDigits(s) /\ Len(s) \in {1, 2} /\ Num(s) \in 1..12

\* %d: 3[0-1]|[1-2]\d|0[1-9]|[1-9]| [1-9]
MatchesD(s) ==
    \/ IsDigits(s) /\ Len(s) \in {1, 2} /\ Num(s) \in 1..31
    \/ Len(s) = 2 /\ s[1] = " " /\ s[2] \in Digits \ {"0"}

IsLeap(y) == y % 4 = 0 /\ (y % 100 # 0 \/ y % 400 = 0)

DaysInMonth(y, m) ==
    IF m = 2 THEN (IF IsLeap(y) THEN 29 ELSE 28)
    ELSE IF m \in {4, 6, 9, 11} THEN 30 ELSE 31

\* The (year, month, day) the format's regular expression reads from s, when
\* the whole of s matches it
YmdOf(s) ==
    LET parts == Split(s, "-")
    IN <<Num(parts[1]), Num(parts[2]), Num(Remove(parts[3], " "))>>

\* strptime returns (rather than raising ValueError): the whole string matches
\* the regular expression and datetime(year, month, day) is a date
StrptimeAccepts(s) ==
    LET parts == Split(s, "-")
    IN /\ Len(parts) = 3
       /\ MatchesY(parts[1]) /\ MatchesM(parts[2]) /\ MatchesD(parts[3])
       /\ LET ymd == YmdOf(s)
          IN ymd[1] >= 1 /\ ymd[3] <= DaysInMonth(ymd[1], ymd[2])

---------------------------------------------------------------------------
(* SQLite: text comparison and LIKE *)

\* Code points of the characters date strings are made of (BINARY collation
\* compares bytes)
CharCode(c) ==
    IF c = " " THEN 32
    ELSE IF c = "-" THEN 45
    ELSE IF c \in Digits THEN 48 + DigitVal[c]
    ELSE 127

\* a < b as TEXT values
RECURSIVE TextLess(_, _)
TextLess(a, b) ==
    IF b = <<>> THEN FALSE
    ELSE IF a = <<>> THEN TRUE
    ELSE IF CharCode(Head(a)) # CharCode(Head(b))
         THEN CharCode(Head(a)) < CharCode(Head(b))
    ELSE TextLess(Tail(a), Tail(b))

\* LIKE folds the case of ASCII letters only
AsciiLower == {"a", "b", "c", "d", "e", "f", "g", "h", "i", "j", "k", "l", "m",
               "n", "o", "p", "q", "r", "s", "t", "u", "v", "w", "x", "y", "z"}

AsciiUpperOf == [c \in AsciiLower |->
    CASE c = "a" -> "A" [] c = "b" -> "B" [] c = "c" -> "C" [] c = "d" -> "D"
      [] c = "e" -> "E" [] c = "f" -> "F" [] c = "g" -> "G" [] c = "h" -> "H"
      [] c = "i" -> "I" [] c = "j" -> "J" [] c = "k" -> "K" [] c = "l" -> "L"
      [] c = "m" -> "M" [] c = "n" -> "N" [] c = "o" -> "O" [] c = "p" -> "P"
      [] c = "q" -> "Q" [] c = "r" -> "R" [] c = "s" -> "S" [] c = "t" -> "T"
      [] c = "u" -> "U" [] c = "v" -> "V" [] c = "w" -> "W" [] c = "x" -> "X"
      [] c = "y" -> "Y" [] c = "z" -> "Z"]

FoldCase(c) == IF c \in AsciiLower THEN AsciiUpperOf[c] ELSE c

\* text LIKE pattern: % matches any run of characters, _ any one character,
\* any other character itself up to ASCII case; no escape character
RECURSIVE Like(_, _)
Like(text, pattern) ==
    IF pattern = <<>> THEN text = <<>>
    ELSE IF Head(pattern) = "%"
         THEN \/ Like(text, Tail(pattern))
              \/ text # <<>> /\ Like(Tail(text), pattern)
    ELSE /\ text # <<>>
         /\ Head(pattern) = "_" \/ FoldCase(Head(pattern)) = FoldCase(Head(text))
         /\ Like(Tail(text), Tail(pattern))

---------------------------------------------------------------------------
(* The inventory store.  A database is a record                            *)
(*   [table_exists, food_items, last_id];                                  *)
(* fault = TRUE makes the operation's SQL statement raise sqlite3.Error    *)
(* for a reason outside the program (locked or unreadable file); a         *)
(* statement on a table that does not exist raises by itself.  An          *)
(* operation returns                                                       *)
(*   db           the database it leaves                                   *)
(*   raised       an exception leaves the function                         *)
(*   conn_closed  the function closed the connection it opened             *)
(*   messages     what it showed with st.success / st.error                *)
(*   count, rows  the value it returns (a row count, a list of rows)       *)
(***************************************************************************)

Row(id, name, purchase_date, expiry_date, quantity) ==
    [id |-> id, name |-> name, purchase_date |-> purchase_date,
     expiry_date |-> expiry_date, quantity |-> quantity]

Result(db, raised, conn_closed, messages, count, rows) ==
    [db |-> db, raised |-> raised, conn_closed |-> conn_closed,
     messages |-> messages, count |-> count, rows |-> rows]

\* ORDER BY expiry_date ASC on a TEXT column; rows with equal expiry_date
\* come in rowid order
RowBefore(a, b) ==
    \/ TextLess(a.expiry_date, b.expiry_date)
    \/ a.expiry_date = b.expiry_date /\ a.id < b.id

RECURSIVE OrderByExpiry(_)
OrderByExpiry(rows) ==
    IF rows = {} THEN <<>>
    ELSE LET first == CHOOSE r \in rows :
                 \A o \in rows \ {r} : RowBefore(r, o)
         IN <<first>> \o OrderByExpiry(rows \ {first})

init_db(db, fault) ==
    IF fault
    THEN Result(db, TRUE, FALSE, {}, 0, <<>>)
    ELSE Result([db EXCEPT !.table_exists = TRUE], FALSE, TRUE, {}, 0, <<>>)

add_ingredient_to_db(db, name, purchase_date, expiry_date, quantity, fault) ==
    IF fault \/ ~db.table_exists
    THEN Result(db, FALSE, TRUE, {"add_error"}, 0, <<>>)
    ELSE LET id == db.last_id + 1
         IN Result([db EXCEPT
                       !.food_items = @ \cup
                           {Row(id, name, purchase_date, expiry_date, quantity)},
                       !.last_id = id],
                   FALSE, TRUE, {"add_success"}, 0, <<>>)

get_all_ingredients(db, fault) ==
    IF fault \/ ~db.table_exists
    THEN Result(db, TRUE, FALSE, {}, 0, <<>>)
    ELSE Result(db, FALSE, TRUE, {}, 0, OrderByExpiry(db.food_items))

delete_ingredient_from_db(db, ingredient_name_like, fault) ==
    IF fault \/ ~db.table_exists
    THEN Result(db, FALSE, TRUE, {"delete_error"}, 0, <<>>)
    ELSE LET pattern == <<"%">> \o ingredient_name_like \o <<"%">>
             hit == {r \in db.food_items : Like(r.name, pattern)}
         IN Result([db EXCEPT !.food_items = @ \ hit],
                   FALSE, TRUE, {}, Cardinality(hit), <<>>)

\* clear_database without its conn.commit(): the DELETE is rolled back when
\* the connection closes
clear_database_uncommitted(db, fault) ==
    IF fault \/ ~db.table_exists
    THEN Result(db, FALSE, TRUE, {"clear_error"}, 0, <<>>)
    ELSE Result(db, FALSE, TRUE, {"clear_success"}, 0, <<>>)

clear_database(db, fault) ==
    IF fault \/ ~db.table_exists
    THEN Result(db, FALSE, TRUE, {"clear_error"}, 0, <<>>)
    ELSE Result([db EXCEPT !.food_items = {}],
                FALSE, TRUE, {"clear_success"}, 0, <<>>)

---------------------------------------------------------------------------
(* The suggestion consumer: lines 215-224 of run_app *)

\* line.split(LABEL)[1].strip(): the text between the first occurrence of the
\* label and the next one (or the end of the line)
IngredientsStr(line) == Strip(Split(line, LABEL)[2])

\* ingredients_str.replace(WIDE_COMMA, ",").replace(" ", "").split(',')
Items(ingredients_str) ==
    Split(Remove(Replace(ingredients_str, WIDE_COMMA, ","), " "), ",")

\* the names one line adds: every non-empty item, stripped
LineIngredients(line) ==
    IF Contains(line, LABEL)
    THEN LET items == Items(IngredientsStr(line))
         IN {Strip(items[i]) : i \in {j \in 1..Len(items) : items[j] # <<>>}}
    ELSE {}

ExtractUsedIngredients(suggested_menu_text) ==
    LET lines == Split(suggested_menu_text, "\n")
    IN UNION {LineIngredients(lines[i]) : i \in 1..Len(lines)}

---------------------------------------------------------------------------
(* Texts *)

Carrot == <<"c", "a", "r", "r", "o", "t">>
Rice == <<"r", "i", "c", "e">>

\* the indentation of the lines of the placeholder text (lines 199-206)
Indent == [i \in 1..20 |-> " "]

\* The placeholder suggestion of lines 198-206
DummyText ==
    <<"\n">>
    \o Indent \o <<"<recipe-name:>", " ", "<toriniku-to-yasai-no-irodori-itame>",
                   " ", "(", "<dummy>", ")", "\n">>
    \o Indent \o <<LABEL, " ", "<torimomoniku>", WIDE_COMMA, "<tamanegi>",
                   WIDE_COMMA, "<piiman>", WIDE_COMMA, "<ninjin>", WIDE_COMMA,
                   "<kyabetsu>", "\n">>
    \o Indent \o <<"<steps:>", " ", "<dummy-no-chouri-tejun-desu.>", "\n">>
    \o <<"\n">>
    \o Indent \o <<"<recipe-name:>", " ", "<daikon-to-butabara-no-nimono>",
                   " ", "(", "<dummy>", ")", "\n">>
    \o Indent \o <<LABEL, " ", "<daikon>", WIDE_COMMA, "<butabaraniku>",
                   WIDE_COMMA, "<shouga>", "\n">>
    \o Indent \o <<"<steps:>", " ", "<dummy-no-chouri-tejun-desu.>", "\n">>
    \o Indent

\* "献立の生成に失敗しました。" (line 195)
FailedText == <<"<kondate-no-seisei-ni-shippai-shimashita.>">>

\* Texts the Gemini service may return (response.text)
AiTexts == {
    \* 使用食材: carrot
    <<LABEL, " ">> \o Carrot,
    \* 使用食材: 鶏もも肉、玉ねぎ
    <<LABEL, " ", "<torimomoniku>", WIDE_COMMA, "<tamanegi>">>,
    \* 使用食材: carrot,<TAB>,rice
    <<LABEL, " ">> \o Carrot \o <<",", "\t", ",">> \o Rice,
    \* a recipe with no ingredient line
    <<"<recipe-name:>", " ", "<yasai-itame>">> }

\* What model.generate_content(prompt) may do (lines 191-195)
AiOutcomes ==
    {[raises |-> TRUE, text |-> <<>>]}
    \cup {[raises |-> FALSE, text |-> t] : t \in AiTexts}

---------------------------------------------------------------------------
(* One run of the script.  A run threads a context through the sections of *)
(* run_app in source order:                                                *)
(*   db, ss   the database and st.session_state                            *)
(*   ev       the user event that triggered the run: a button reads True   *)
(*            only in the run its own click triggered                      *)
(*   ai       what the Gemini call does if this run makes it               *)
(*   status   "running", "exception" (an exception left the script) or     *)
(*            "rerun" (st.rerun() stopped the script)                      *)
(*   scr      what the run has rendered so far                             *)
(*   log      the store calls the run has made                             *)
(*   model    the module-level name `model`: "object", "None" or "unbound" *)
(*   data     the local ingredients_data                                   *)
(* The store operations are called with fault = FALSE here: storage faults *)
(* are explored by calling the operations directly (SpecStore).            *)
(***************************************************************************)

Event(click, name, purchase_date, expiry_date, quantity) ==
    [click |-> click, name |-> name, purchase_date |-> purchase_date,
     expiry_date |-> expiry_date, quantity |-> quantity]

\* an event that carries no form input
Plain(click) == Event(click, <<>>, <<>>, <<>>, 0)

EmptyScreen ==
    [widgets |-> {}, table |-> <<>>, messages |-> {}, prompt |-> {},
     exception |-> "none"]

EmptyLog == [add_called |-> FALSE, delete_calls |-> <<>>, reported |-> <<>>]

NoAi == [raises |-> FALSE, text |-> <<>>]

Start(db, ss, ev, ai) ==
    [db |-> db, ss |-> ss, ev |-> ev, ai |-> ai, status |-> "running",
     scr |-> EmptyScreen, log |-> EmptyLog, model |-> "unbound", data |-> <<>>]

Show(c, messages) == [c EXCEPT !.scr.messages = @ \cup messages]

Widget(c, w) == [c EXCEPT !.scr.widgets = @ \cup {w}]

Raise(c, exception) ==
    [c EXCEPT !.status = "exception", !.scr.exception = exception]

\* lines 68-82: the script's top level runs again in every run
GeminiSetup(c) ==
    CASE api_key_setup = "configured" -> [c EXCEPT !.model = "object"]
      [] api_key_setup = "configure_raises" ->
             Show(c, {"gemini_setup_error"})
      [] api_key_setup = "absent" ->
             [Show(c, {"api_key_missing"}) EXCEPT !.model = "None"]

\* lines 105-106
ResetSection(c) ==
    IF c.status # "running" THEN c
    ELSE LET c1 == Widget(c, "reset")
         IN IF c.ev.click = "reset"
            THEN LET r == clear_database(c1.db, FALSE)
                 IN [Show(c1, r.messages) EXCEPT !.db = r.db]
            ELSE c1

\* lines 109-111
InitSection(c) ==
    IF c.status # "running" THEN c
    ELSE IF ~c.ss.db_initialized
    THEN LET r == init_db(c.db, FALSE)
         IN IF r.raised THEN Raise(c, "sqlite3.Error")
            ELSE [c EXCEPT !.db = r.db, !.ss.db_initialized = TRUE]
    ELSE c

\* lines 114-139: the form and the add handler
AddSection(c) ==
    IF c.status # "running" THEN c
    ELSE LET c1 == Widget(c, "submit")
             ev == c.ev
         IN IF ev.click # "submit" THEN c1
            \* not all([name, purchase_date_str, expiry_date_str, quantity])
            ELSE IF \/ ev.name = <<>> \/ ev.purchase_date = <<>>
                    \/ ev.expiry_date = <<>> \/ ev.quantity = 0
            THEN Show(c1, {"fill_all_fields"})
            ELSE IF \/ ~StrptimeAccepts(ev.purchase_date)
                    \/ ~StrptimeAccepts(ev.expiry_date)
            THEN Show(c1, {"date_format_error"})
            ELSE LET r == add_ingredient_to_db(c1.db, ev.name, ev.purchase_date,
                                               ev.expiry_date, ev.quantity, FALSE)
                 IN [Show(c1, r.messages) EXCEPT !.db = r.db,
                                                 !.log.add_called = TRUE]

\* lines 142-150: the table of the current items
ListingSection(c) ==
    IF c.status # "running" THEN c
    ELSE LET r == get_all_ingredients(c.db, FALSE)
         IN IF r.raised THEN Raise(c, "sqlite3.Error")
            ELSE IF r.rows # <<>>
            THEN [Widget(c, "dataframe") EXCEPT !.data = r.rows,
                                                !.scr.table = r.rows]
            ELSE [Show(c, {"no_items"}) EXCEPT !.data = r.rows]

\* lines 153-208: the suggestion request
SuggestSection(c) ==
    IF c.status # "running" THEN c
    ELSE LET c1 == Widget(c, "suggest")
         IN IF c.ev.click # "suggest" THEN c1
            ELSE IF c1.data = <<>> THEN Show(c1, {"no_items_for_menu"})
            \* `if model:` with the name model never bound raises NameError
            ELSE IF c1.model = "unbound" THEN Raise(c1, "NameError")
            ELSE LET c2 ==
                         IF c1.model = "None"
                         THEN [c1 EXCEPT !.ss.current_suggested_menu = DummyText]
                         ELSE IF c1.ai.raises
                         THEN [Show(c1, {"gemini_call_error"}) EXCEPT
                                  !.ss.current_suggested_menu = FailedText]
                         ELSE [c1 EXCEPT
                                  !.ss.current_suggested_menu = c1.ai.text]
                 IN [c2 EXCEPT !.ss.has_menu = TRUE, !.status = "rerun"]

\* lines 232-235: one delete_ingredient_from_db call per name of the set, in
\* the set's iteration order
RECURSIVE DeleteEach(_, _)
DeleteEach(db, used_ingredients) ==
    IF used_ingredients = {}
    THEN [db |-> db, calls |-> <<>>, total |-> 0, messages |-> {}]
    ELSE LET ingredient_name == CHOOSE n \in used_ingredients : TRUE
             r == delete_ingredient_from_db(db, ingredient_name, FALSE)
             rest == DeleteEach(r.db, used_ingredients \ {ingredient_name})
         IN [db |-> rest.db,
             calls |-> <<ingredient_name>> \o rest.calls,
             total |-> r.count + rest.total,
             messages |-> r.messages \cup rest.messages]

\* lines 229-240: the confirmation controls, shown in the run in which
\* "select" read True
ConfirmSection(c, used_ingredients) ==
    LET c1 == Widget([c EXCEPT !.scr.prompt = used_ingredients], "yes")
    IN IF c.ev.click = "yes"
       THEN LET d == DeleteEach(c1.db, used_ingredients)
            IN [Show(c1, d.messages \cup {"deleted_total"}) EXCEPT
                   !.db = d.db,
                   !.log.delete_calls = d.calls,
                   !.log.reported = <<d.total>>,
                   !.ss.current_suggested_menu = <<>>,
                   !.status = "rerun"]
       ELSE LET c2 == Widget(c1, "no")
            IN IF c.ev.click = "no" THEN Show(c2, {"delete_cancelled"}) ELSE c2

\* lines 210-242: the suggestion and its selection
MenuSection(c) ==
    IF c.status # "running" THEN c
    ELSE IF c.ss.has_menu /\ c.ss.current_suggested_menu # <<>>
    THEN LET c1 == Widget(Widget(c, "text_area"), "select")
         IN IF c.ev.click # "select" THEN c1
            ELSE LET used_ingredients ==
                         ExtractUsedIngredients(c.ss.current_suggested_menu)
                 IN IF used_ingredients = {}
                    THEN Show(c1, {"no_ingredients_identified"})
                    ELSE ConfirmSection(c1, used_ingredients)
    ELSE Show(c, {"ask_for_menu"})

\* the one element of a one-element set
Only(S) == CHOOSE r \in S : TRUE

\* run_app with the table of the current items read before the add form is
\* handled
RunScript_listing_first(c) ==
    Only({MenuSection(c6) : c6 \in
         {SuggestSection(c5) : c5 \in
         {AddSection(c4) : c4 \in
         {ListingSection(c3) : c3 \in
         {InitSection(c2) : c2 \in
         {ResetSection(c1) : c1 \in
         {GeminiSetup(c)}}}}}}})

\* run_app, lines 100-242: the sections in source order, each applied to the
\* context the one before it left (a set constructor binds its variable to a
\* value, so each section is evaluated once)
RunScript(c) ==
    Only({MenuSection(c6) : c6 \in
         {SuggestSection(c5) : c5 \in
         {ListingSection(c4) : c4 \in
         {AddSection(c3) : c3 \in
         {InitSection(c2) : c2 \in
         {ResetSection(c1) : c1 \in
         {GeminiSetup(c)}}}}}}})

---------------------------------------------------------------------------
(* The application: every user event runs the script from the top *)

\* number_input(min_value=0.01): quantities are counted in hundredths
min_value == 1

Database == [table_exists |-> table_exists, food_items |-> food_items,
             last_id |-> last_id]

\* The script runs with button states ev and leaves its effects; `event` is
\* what last_event records
Run(ev, ai, event) ==
    \E c \in {RunScript(Start(Database, session_state, ev, ai))} :
       /\ table_exists' = c.db.table_exists
       /\ food_items' = c.db.food_items
       /\ last_id' = c.db.last_id
       /\ session_state' = c.ss
       /\ screen' = c.scr
       /\ pc' = IF c.status = "rerun" THEN "run" ELSE "idle"
       /\ last_event' = event
       /\ run_log' = c.log
       /\ reset_clean' = IF c.log.add_called THEN FALSE
                         ELSE IF ev.click = "reset" THEN TRUE
                         ELSE reset_clean
       /\ UNCHANGED <<api_key_setup, call>>

Clickable(w) == pc = "idle" /\ w \in screen.widgets

\* Values the user may type into the form: every combination of the usual
\* values, and the usual form with one field left empty or mistyped
NameInputs == {Carrot, Rice}

PurchaseInputs == {<<"2", "0", "2", "4", "-", "0", "1", "-", "0", "5">>}

ExpiryInputs == {
    <<"2", "0", "2", "4", "-", "1", "0", "-", "0", "1">>,
    <<"2", "0", "2", "4", "-", "2", "-", "1">> }

QuantityInputs == {0, 1, 100}

UsualForm ==
    [name |-> Carrot,
     purchase_date |-> <<"2", "0", "2", "4", "-", "0", "1", "-", "0", "5">>,
     expiry_date |-> <<"2", "0", "2", "4", "-", "1", "0", "-", "0", "1">>,
     quantity |-> 100]

FormInputs ==
    [name : NameInputs, purchase_date : PurchaseInputs,
     expiry_date : ExpiryInputs, quantity : QuantityInputs]
    \cup {[UsualForm EXCEPT !.name = <<>>],
          [UsualForm EXCEPT !.expiry_date = <<>>],
          [UsualForm EXCEPT !.purchase_date =
              <<"0", "5", "/", "0", "1", "/", "2", "0", "2", "4">>],
          [UsualForm EXCEPT !.expiry_date =
              <<"2", "0", "2", "4", "-", "0", "2", "-", "3", "0">>]}

\* the session's first run, and the run st.rerun() starts: no button reads True
Rerun ==
    /\ pc = "run"
    /\ Run(Plain("none"), NoAi, last_event)

\* the user edits a text input outside the form (lines 157-158)
EditTextInput ==
    /\ Clickable("suggest")
    /\ Run(Plain("none"), NoAi, Plain("edit"))

ClickReset ==
    /\ Clickable("reset")
    /\ Run(Plain("reset"), NoAi, Plain("reset"))

ClickSubmit ==
    /\ Clickable("submit")
    /\ last_id < MaxId
    /\ \E f \in {g \in FormInputs : g.quantity >= min_value} :
          LET ev == Event("submit", f.name, f.purchase_date, f.expiry_date,
                          f.quantity)
          IN Run(ev, NoAi, ev)

ClickSuggest ==
    /\ Clickable("suggest")
    /\ \E ai \in AiOutcomes : Run(Plain("suggest"), ai, Plain("suggest"))

ClickSelect ==
    /\ Clickable("select")
    /\ Run(Plain("select"), NoAi, Plain("select"))

ClickYes ==
    /\ Clickable("yes")
    /\ Run(Plain("yes"), NoAi, Plain("yes"))

ClickNo ==
    /\ Clickable("no")
    /\ Run(Plain("no"), NoAi, Plain("no"))

NoCall ==
    [op |-> "none", arg |-> <<>>, fault |-> FALSE, before |-> {},
     raised |-> FALSE, conn_closed |-> TRUE, messages |-> {}, count |-> 0,
     rows |-> <<>>]

\* A new database file and a new session; the environment fixes whether
\* GOOGLE_API_KEY is set and whether the Gemini setup raises
Init ==
    /\ table_exists = FALSE
    /\ food_items = {}
    /\ last_id = 0
    /\ session_state = [db_initialized |-> FALSE, has_menu |-> FALSE,
                        current_suggested_menu |-> <<>>]
    /\ api_key_setup \in {"absent", "configured", "configure_raises"}
    /\ screen = EmptyScreen
    /\ pc = "run"
    /\ last_event = Plain("open")
    /\ run_log = EmptyLog
    /\ reset_clean = FALSE
    /\ call = NoCall

Next ==
    \/ Rerun
    \/ EditTextInput
    \/ ClickReset
    \/ ClickSubmit
    \/ ClickSuggest
    \/ ClickSelect
    \/ ClickYes
    \/ ClickNo

Spec == Init /\ [][Next]_vars

---------------------------------------------------------------------------
(* The store operations called directly, each with and without a storage   *)
(* fault, on whatever the earlier calls left                               *)

\* names and search strings that differ in letter case or hold the LIKE
\* wildcards
StoreNames == {<<"A">>, <<"a", "b">>, <<"b">>}

SearchInputs == {<<>>, <<"a">>, <<"b">>, <<"a", "b">>, <<"_">>, <<"%">>}

\* The call of operation op with argument arg returned r
Called(op, arg, fault, r) ==
    /\ table_exists' = r.db.table_exists
    /\ food_items' = r.db.food_items
    /\ last_id' = r.db.last_id
    /\ call' = [op |-> op, arg |-> arg, fault |-> fault, before |-> food_items,
                raised |-> r.raised, conn_closed |-> r.conn_closed,
                messages |-> r.messages, count |-> r.count, rows |-> r.rows]
    /\ UNCHANGED <<app_vars, api_key_setup>>

CallInitDb ==
    \E fault \in BOOLEAN :
        Called("init_db", <<>>, fault, init_db(Database, fault))

CallAdd ==
    /\ last_id < MaxId
    /\ \E name \in StoreNames, expiry_date \in ExpiryInputs, fault \in BOOLEAN :
          Called("add_ingredient_to_db", name, fault,
                 add_ingredient_to_db(Database, name, UsualForm.purchase_date,
                                      expiry_date, UsualForm.quantity, fault))

CallGetAll ==
    \E fault \in BOOLEAN :
        Called("get_all_ingredients", <<>>, fault,
               get_all_ingredients(Database, fault))

CallDelete ==
    \E s \in SearchInputs, fault \in BOOLEAN :
        Called("delete_ingredient_from_db", s, fault,
               delete_ingredient_from_db(Database, s, fault))

CallClear ==
    \E fault \in BOOLEAN :
        Called("clear_database", <<>>, fault, clear_database(Database, fault))

NextStore ==
    \/ CallInitDb
    \/ CallAdd
    \/ CallGetAll
    \/ CallDelete
    \/ CallClear

SpecStore == Init /\ [][NextStore]_vars

---------------------------------------------------------------------------
(* Properties *)

Range(s) == {s[i] : i \in 1..Len(s)}

\* the step is the script run a click on button b triggered
ClickStep(b) == pc = "idle" /\ b \in screen.widgets /\ last_event'.click = b

\* C1: when a suggestion with a non-empty ingredient set is displayed and
\* the user clicks "select" and then "yes", then once the runs the click
\* triggered have finished, no row whose name contains an extracted name is
\* left, the current suggestion is empty, and the table lists the store.
C1_ConfirmedDeletionTakesEffect ==
    [][( /\ last_event'.click = "yes" /\ pc' = "idle"
         /\ \E r \in food_items : \E n \in screen.prompt :
                IsSubstring(n, r.name) )
       => /\ \A r \in food_items' : \A n \in screen.prompt :
                 ~IsSubstring(n, r.name)
          /\ session_state'.current_suggested_menu = <<>>
          /\ Range(screen'.table) = food_items']_vars

\* C2: delete_ingredient_from_db(s), when its statement succeeds, removes
\* exactly the rows whose name contains s as a case-sensitive literal
\* substring and returns the number of rows removed.
C2_DeleteRemovesExactlySubstringRows ==
    (call.op = "delete_ingredient_from_db" /\ call.messages = {}) =>
        /\ food_items = {r \in call.before : ~IsSubstring(call.arg, r.name)}
        /\ call.count = Cardinality(call.before) - Cardinality(food_items)

\* a is an earlier calendar date than b, for (year, month, day) triples
CalendarLess(a, b) ==
    \/ a[1] < b[1]
    \/ a[1] = b[1] /\ a[2] < b[2]
    \/ a[1] = b[1] /\ a[2] = b[2] /\ a[3] < b[3]

\* C3: after the add handler ran on dates the validation accepts and a
\* positive quantity, the listing holds that item; and the listing is
\* always in ascending order of expiry date as calendar dates.
C3_AddedItemListedInCalendarOrder ==
    pc = "idle" =>
        /\ ( /\ last_event.click = "submit"
             /\ last_event.name # <<>>
             /\ StrptimeAccepts(last_event.purchase_date)
             /\ StrptimeAccepts(last_event.expiry_date)
             /\ last_event.quantity > 0 )
           => \E i \in 1..Len(screen.table) :
                  /\ screen.table[i].name = last_event.name
                  /\ screen.table[i].purchase_date = last_event.purchase_date
                  /\ screen.table[i].expiry_date = last_event.expiry_date
                  /\ screen.table[i].quantity = last_event.quantity
        /\ \A i \in 1..(Len(screen.table) - 1) :
               ~CalendarLess(YmdOf(screen.table[i + 1].expiry_date),
                             YmdOf(screen.table[i].expiry_date))

\* s is an ISO 8601 calendar date YYYY-MM-DD: ten characters, zero-padded
IsIsoDate(s) ==
    /\ Len(s) = 10
    /\ s[5] = "-" /\ s[8] = "-"
    /\ \A i \in {1, 2, 3, 4, 6, 7, 9, 10} : s[i] \in Digits
    /\ LET y == Num(SubSeq(s, 1, 4))
           m == Num(SubSeq(s, 6, 7))
           d == Num(SubSeq(s, 9, 10))
       IN y >= 1 /\ m \in 1..12 /\ d >= 1 /\ d <= DaysInMonth(y, m)

\* C4: a submitted form with a missing field, a purchase or expiry date
\* that is not an ISO YYYY-MM-DD date, or a non-positive quantity is
\* rejected: a message is shown, add_ingredient_to_db is not called and the
\* rows are unchanged.
C4_MalformedSubmitRejected ==
    [][( /\ ClickStep("submit")
         /\ \/ last_event'.name = <<>>
            \/ ~IsIsoDate(last_event'.purchase_date)
            \/ ~IsIsoDate(last_event'.expiry_date)
            \/ last_event'.quantity <= 0 )
       => /\ screen'.messages \cap {"fill_all_fields", "date_format_error"} # {}
          /\ ~run_log'.add_called
          /\ food_items' = food_items]_vars

\* The reference extraction: of every line that contains the label, the
\* text after the label, with the wide comma replaced by a comma and spaces
\* removed, split on commas, each piece trimmed, the non-empty ones kept
ReferenceIngredients(text) ==
    LET lines == Split(text, "\n")
        After(line) == SubSeq(line, FirstIndex(line, LABEL) + 1, Len(line))
        Pieces(line) == Split(Remove(Replace(After(line), WIDE_COMMA, ","), " "),
                              ",")
        Names(line) == {Strip(Pieces(line)[i]) : i \in 1..Len(Pieces(line))}
                       \ {<<>>}
    IN UNION {Names(lines[i]) :
                 i \in {j \in 1..Len(lines) : Contains(lines[j], LABEL)}}

\* C5: the ingredient set the select handler extracts from the suggestion
\* equals the reference set, and never holds the empty string.
C5_ExtractedSetIsReferenceSet ==
    (pc = "idle" /\ last_event.click = "select") =>
        /\ screen.prompt =
               ReferenceIngredients(session_state.current_suggested_menu)
        /\ <<>> \notin screen.prompt

\* C6: whatever the Gemini setup and call did, a click on "suggest" with a
\* non-empty inventory stores a non-empty suggestion in the session and no
\* exception leaves the script.
C6_SuggestAlwaysStoresSuggestion ==
    (last_event.click = "suggest" /\ food_items # {}) =>
        /\ session_state.has_menu
        /\ session_state.current_suggested_menu # <<>>
        /\ screen.exception = "none"

\* C7: after a click on reset, the store has no row and every listing, in
\* that run and in every later run until the next add, is empty.
C7_ResetEmptiesUntilNextAdd ==
    reset_clean =>
        /\ food_items = {}
        /\ pc = "idle" => /\ screen.table = <<>>
                          /\ "dataframe" \notin screen.widgets
                          /\ "no_items" \in screen.messages

\* a later run after a reset that followed an add
C7_Witness ==
    /\ reset_clean
    /\ last_id >= 1
    /\ pc = "idle"
    /\ last_event.click \in {"edit", "select", "suggest"}

\* C8: when the statement of a store operation fails, a message is shown,
\* the rows are unchanged, the connection is closed and no exception leaves
\* the operation.
C8_StorageFailureContained ==
    ( /\ call.op # "none"
      /\ call.fault \/ (call.op # "init_db" /\ ~table_exists) )
    => /\ call.messages # {}
       /\ food_items = call.before
       /\ call.conn_closed
       /\ ~call.raised

\* C9: when the user confirms the deletion of the displayed ingredient set,
\* delete_ingredient_from_db is called exactly once per name of the set and
\* the total reported is the number of rows removed from the store.
C9_OneCallPerNameTotalIsRowsRemoved ==
    [][ClickStep("yes") =>
          /\ Len(run_log'.delete_calls) = Cardinality(screen.prompt)
          /\ Range(run_log'.delete_calls) = screen.prompt
          /\ run_log'.reported =
                 <<Cardinality(food_items) - Cardinality(food_items')>>]_vars

\* C10: once the script has finished running, the table shown is the
\* current content of the store.
C10_TableShowsStore ==
    pc = "idle" =>
        /\ Range(screen.table) = food_items
        /\ Len(screen.table) = Cardinality(food_items)
        /\ ("dataframe" \in screen.widgets) <=> (food_items # {})

\* the run of an accepted add shows the new row beside the older one
C10_Witness ==
    /\ pc = "idle"
    /\ last_event.click = "submit"
    /\ run_log.add_called
    /\ Len(screen.table) = 2

===========================================================================
